---- MODULE Spec2Model ----
(***************************************************************************)
(* The sliding-puzzle engine of src/src/lib/puzzle.ts.                     *)
(*                                                                         *)
(* PuzzleState objects, their grid arrays and the row arrays live in a     *)
(* heap of JavaScript objects, so that copying, in-place writes and        *)
(* aliasing are what the code makes them.  An array is a function from the *)
(* integer keys it owns to values; reading a key it does not own yields    *)
(* undefined, writing one creates it.                                      *)
(*                                                                         *)
(* The second part is the host of the engine: App (src/src/App.tsx) and    *)
(* GameScreen, whose handlers are actions that include the render and the  *)
(* effects that follow them.                                               *)
(***************************************************************************)
EXTENDS Integers, Sequences, FiniteSets, TLC

(* ------------------------------ bounds -------------------------------- *)

\* largest side length of the puzzles explored (the smallest is 2)
MaxSize == 3
\* number of engine calls (createSolvedPuzzle, shufflePuzzle, movePiece) in a run
MaxOps == 2
\* largest `moves` argument handed to shufflePuzzle
MaxSteps == 2
\* Math.random() is drawn from {0/RandDenom, ..., (RandDenom-1)/RandDenom}
RandDenom == 4
\* the game screen shuffles 1000 moves; the games explored begin with the
\* walks of 2 * HalfWalk moves (a walk of even length, followed by steps
\* back and forth, is a walk of 1000 moves)
HalfWalk == 1
\* accepted moves of one round of a game
MaxSlides == 2
\* largest number of elapsed seconds a timer tick reads
MaxElapsed == 2

(* ------------------------- JavaScript values -------------------------- *)

\* the value of a missing array element or property
Undefined == -1

\* what a call produced: a reference to a PuzzleState, null, a boolean, or
\* nothing because a TypeError was thrown
StateRef(a) == [kind |-> "state", addr |-> a]
Null == [kind |-> "null"]
Bool(b) == [kind |-> "boolean", val |-> b]
TypeError == [kind |-> "TypeError"]
NoCall == [kind |-> "none"]

Abs(x) == IF x < 0 THEN -x ELSE x

Max(S) == CHOOSE m \in S : \A x \in S : x <= m

\* [] : an array owning no key
EmptyArray == [k \in {} |-> Undefined]

\* a[k]
Get(a, k) == IF k \in DOMAIN a THEN a[k] ELSE Undefined

\* a[k] = v
Put(a, k, v) == IF k \in DOMAIN a THEN [a EXCEPT ![k] = v] ELSE a @@ (k :> v)

\* a.length
Length(a) ==
  LET idx == {k \in DOMAIN a : k >= 0}
  IN IF idx = {} THEN 0 ELSE Max(idx) + 1

\* [...a] : a fresh array of the elements 0 .. length-1 (other keys are not copied)
Spread(a) == [k \in 0 .. Length(a) - 1 |-> Get(a, k)]

(* -------------------------------- heap -------------------------------- *)

\* the lowest address the heap does not use
FreeAddr(h) == CHOOSE a \in 1 .. Cardinality(DOMAIN h) + 1 :
                 /\ a \notin DOMAIN h
                 /\ \A b \in 1 .. a - 1 : b \in DOMAIN h

\* a new object holding obj
Alloc(h, obj) ==
  LET a == FreeAddr(h)
  IN [heap |-> h @@ (a :> obj), addr |-> a]

\* the row arrays of the PuzzleState at address s
RowsOf(h, s) == {h[h[s].grid][k] : k \in DOMAIN h[h[s].grid]}

\* the objects a holder of the PuzzleState at address s can reach
Reach(h, s) == {s, h[s].grid} \cup RowsOf(h, s)

\* the heap once everything but the PuzzleState at s is collected
Collect(h, s) == [a \in Reach(h, s) |-> h[a]]

\* state.grid[r][c]
Cell(h, s, r, c) ==
  LET rowRef == Get(h[h[s].grid], r)
  IN IF rowRef = Undefined THEN Undefined ELSE Get(h[rowRef], c)

\* the PuzzleState at address s by value
ValueOf(h, s) ==
  [grid |-> [k \in DOMAIN h[h[s].grid] |-> h[h[h[s].grid][k]]],
   emptyRow |-> h[s].emptyRow,
   emptyCol |-> h[s].emptyCol,
   size |-> h[s].size]

\* grid[r][c] of a PuzzleState value
CellV(v, r, c) == IF r \in DOMAIN v.grid THEN Get(v.grid[r], c) ELSE Undefined

(* ------------------------- createSolvedPuzzle ------------------------- *)

\* the inner loop with ++value for value++: every cell is one too large
RECURSIVE FillRowPreIncrement(_, _, _, _)
FillRowPreIncrement(row, j, size, value) ==
  IF j < size
  THEN FillRowPreIncrement(Put(row, j, value + 1), j + 1, size, value + 1)
  ELSE [row |-> row, value |-> value]

\* for (let j = 0; j < size; j++) grid[i][j] = value++
RECURSIVE FillRow(_, _, _, _)
FillRow(row, j, size, value) ==
  IF j < size
  THEN FillRow(Put(row, j, value), j + 1, size, value + 1)
  ELSE [row |-> row, value |-> value]

\* for (let i = 0; i < size; i++) { grid[i] = []; ... }
RECURSIVE FillGrid(_, _, _, _, _)
FillGrid(h, g, i, size, value) ==
  IF i < size
  THEN LET filled == FillRow(EmptyArray, 0, size, value)
           r == Alloc(h, filled.row)
       IN FillGrid([r.heap EXCEPT ![g] = Put(@, i, r.addr)], g, i + 1, size,
                   filled.value)
  ELSE h

createSolvedPuzzle(h, size) ==
  LET g == Alloc(h, EmptyArray)
      h1 == FillGrid(g.heap, g.addr, 0, size, 1)
      lastRow == Get(h1[g.addr], size - 1)
  IN IF lastRow = Undefined
     THEN [heap |-> h, ret |-> TypeError]
     ELSE LET h2 == [h1 EXCEPT ![lastRow] = Put(@, size - 1, 0)]
              s == Alloc(h2, [grid |-> g.addr, emptyRow |-> size - 1,
                              emptyCol |-> size - 1, size |-> size])
          IN [heap |-> s.heap, ret |-> StateRef(s.addr)]

(* ------------------------ canMove / movePiece ------------------------- *)

\* canMove without the same-column / same-row tests: diagonal neighbours pass
canMoveDiagonal(st, row, col) ==
  \/ Abs(row - st.emptyRow) = 1 /\ Abs(col - st.emptyCol) <= 1
  \/ Abs(col - st.emptyCol) = 1 /\ Abs(row - st.emptyRow) <= 1

\* st is a PuzzleState object; only emptyRow and emptyCol are read
canMove(st, row, col) ==
  \/ (Abs(row - st.emptyRow) = 1 /\ col = st.emptyCol)
  \/ (Abs(col - st.emptyCol) = 1 /\ row = st.emptyRow)

\* grid.map((r) => [...r]), element by element into the array at address out
RECURSIVE MapSpreadFrom(_, _, _, _)
MapSpreadFrom(h, g, out, i) ==
  IF i < Length(h[g])
  THEN LET r == Alloc(h, Spread(h[h[g][i]]))
       IN MapSpreadFrom([r.heap EXCEPT ![out] = Put(@, i, r.addr)], g, out, i + 1)
  ELSE h

\* no copy at all: the caller goes on with the grid array it was given
MapSpreadAlias(h, g) == [heap |-> h, addr |-> g]

\* grid.map((r) => [...r]) : a new grid array of new row arrays
MapSpread(h, g) ==
  LET out == Alloc(h, EmptyArray)
  IN [heap |-> MapSpreadFrom(out.heap, g, out.addr, 0), addr |-> out.addr]

\* the swap with line 105 before line 104: the tile is overwritten before it is read
MoveSwapZeroFirst(h, dst, src, emptyCol, col) ==
  LET h1 == [h EXCEPT ![src] = Put(@, col, 0)]
  IN [h1 EXCEPT ![dst] = Put(@, emptyCol, Get(h1[src], col))]

\* the swap without line 105: the moved tile also stays where it was
MoveSwapNoZero(h, dst, src, emptyCol, col) ==
  [h EXCEPT ![dst] = Put(@, emptyCol, Get(h[src], col))]

\* newGrid[emptyRow][emptyCol] = newGrid[row][col]; newGrid[row][col] = 0
\* (dst and src are the row arrays newGrid[emptyRow] and newGrid[row])
MoveSwap(h, dst, src, emptyCol, col) ==
  LET h1 == [h EXCEPT ![dst] = Put(@, emptyCol, Get(h[src], col))]
  IN [h1 EXCEPT ![src] = Put(@, col, 0)]

movePiece(h, s, row, col) ==
  IF ~canMove(h[s], row, col)
  THEN [heap |-> h, ret |-> Null]
  ELSE LET m == MapSpread(h, h[s].grid)
           newGrid == m.heap[m.addr]
           emptyRow == h[s].emptyRow
           emptyCol == h[s].emptyCol
           dst == Get(newGrid, emptyRow)
           src == Get(newGrid, row)
       IN IF dst = Undefined \/ src = Undefined
          THEN \* newGrid[emptyRow] or newGrid[row] is undefined: indexing it throws
               [heap |-> h, ret |-> TypeError]
          ELSE LET h2 == MoveSwap(m.heap, dst, src, emptyCol, col)
                   r == Alloc(h2, [grid |-> m.addr, emptyRow |-> row,
                                   emptyCol |-> col, size |-> h[s].size])
               IN [heap |-> r.heap, ret |-> StateRef(r.addr)]

(* ------------------------------ isSolved ------------------------------ *)

\* the two nested loops of isSolved, from cell (i, j) on
RECURSIVE IsSolvedFrom(_, _, _, _, _)
IsSolvedFrom(h, s, solved, i, j) ==
  IF i < h[s].size
  THEN IF j < h[s].size
       THEN IF Get(h[h[s].grid], i) = Undefined
            THEN TypeError
            ELSE IF Cell(h, s, i, j) # Cell(h, solved, i, j)
                 THEN Bool(FALSE)
                 ELSE IsSolvedFrom(h, s, solved, i, j + 1)
       ELSE IsSolvedFrom(h, s, solved, i + 1, 0)
  ELSE Bool(TRUE)

\* a completion check that only looks at where the blank is
isSolvedBlankOnly(h, s) ==
  Bool(h[s].emptyRow = h[s].size - 1 /\ h[s].emptyCol = h[s].size - 1)

isSolved(h, s) ==
  LET solved == createSolvedPuzzle(h, h[s].size)
  IN IF solved.ret = TypeError
     THEN TypeError
     ELSE IsSolvedFrom(solved.heap, s, solved.ret.addr, 0, 0)

(* ---------------------------- shufflePuzzle --------------------------- *)

\* Up replaced by the diagonal step up-left
directionsDiagonal ==
  << [row |-> -1, col |-> -1],
     [row |-> 1, col |-> 0],
     [row |-> 0, col |-> -1],
     [row |-> 0, col |-> 1] >>

directions ==
  << [row |-> -1, col |-> 0],   \* Up
     [row |-> 1, col |-> 0],    \* Down
     [row |-> 0, col |-> -1],   \* Left
     [row |-> 0, col |-> 1] >>  \* Right

\* the filter with `<= size` for `< size`: one step past the last row or
\* column passes
validMovesOffByOne(st) ==
  LET inside(dir) ==
        LET newRow == st.emptyRow + dir.row
            newCol == st.emptyCol + dir.col
        IN newRow >= 0 /\ newRow <= st.size /\ newCol >= 0 /\ newCol <= st.size
  IN SelectSeq(directions, inside)

\* the filter with `> 0` for `>= 0`: row 0 and column 0 are never entered
validMovesNoBorder(st) ==
  LET inside(dir) ==
        LET newRow == st.emptyRow + dir.row
            newCol == st.emptyCol + dir.col
        IN newRow > 0 /\ newRow < st.size /\ newCol > 0 /\ newCol < st.size
  IN SelectSeq(directions, inside)

\* directions.filter(...) for the PuzzleState object st
validMoves(st) ==
  LET inside(dir) ==
        LET newRow == st.emptyRow + dir.row
            newCol == st.emptyCol + dir.col
        IN newRow >= 0 /\ newRow < st.size /\ newCol >= 0 /\ newCol < st.size
  IN SelectSeq(directions, inside)

\* Math.floor(Math.random() * n), Math.random() being draw / RandDenom
RandomIndex(draw, n) == (draw * n) \div RandDenom

\* the swap without the temporary: the blank's cell is overwritten before it
\* is read, so the tile ends up in both cells
ShuffleSwapNoTemp(h, rowE, rowN, emptyCol, newCol) ==
  LET h1 == [h EXCEPT ![rowE] = Put(@, emptyCol, Get(h[rowN], newCol))]
  IN [h1 EXCEPT ![rowN] = Put(@, newCol, Get(h1[rowE], emptyCol))]

\* const temp = grid[emptyRow][emptyCol]; grid[emptyRow][emptyCol] =
\* grid[newRow][newCol]; grid[newRow][newCol] = temp
\* (rowE and rowN are the row arrays grid[emptyRow] and grid[newRow])
ShuffleSwap(h, rowE, rowN, emptyCol, newCol) ==
  LET temp == Get(h[rowE], emptyCol)
      h1 == [h EXCEPT ![rowE] = Put(@, emptyCol, Get(h[rowN], newCol))]
  IN [h1 EXCEPT ![rowN] = Put(@, newCol, temp)]

\* the body of the for loop from iteration i on; cs is the address of
\* currentState, rnd the successive values of Math.random(), walk the cells
\* the blank has been swapped with so far
RECURSIVE ShuffleFrom(_, _, _, _, _, _)
ShuffleFrom(h, cs, i, moves, rnd, walk) ==
  IF i < moves
  THEN LET st == h[cs]
           valid == validMoves(st)
       IN IF Len(valid) = 0
          THEN [heap |-> h, ret |-> StateRef(cs), walk |-> walk]
          ELSE LET randomMove == valid[RandomIndex(rnd[i + 1], Len(valid)) + 1]
                   newRow == st.emptyRow + randomMove.row
                   newCol == st.emptyCol + randomMove.col
                   rowE == Get(h[st.grid], st.emptyRow)
                   rowN == Get(h[st.grid], newRow)
               IN IF rowE = Undefined \/ rowN = Undefined
                  THEN [heap |-> h, ret |-> TypeError, walk |-> walk]
                  ELSE LET h2 == ShuffleSwap(h, rowE, rowN, st.emptyCol, newCol)
                           h3 == [h2 EXCEPT ![cs] = [@ EXCEPT !.emptyRow = newRow,
                                                             !.emptyCol = newCol]]
                       IN ShuffleFrom(h3, cs, i + 1, moves, rnd,
                                      Append(walk, <<newRow, newCol>>))
  ELSE [heap |-> h, ret |-> StateRef(cs), walk |-> walk]

\* the loop as a do-while: its body runs once even when moves <= 0 (with
\* Math.random() returning 0)
shufflePuzzleDoWhile(h, s, moves, rnd) ==
  LET m == MapSpread(h, h[s].grid)
      currentState == Alloc(m.heap, [h[s] EXCEPT !.grid = m.addr])
  IN IF moves < 1
     THEN ShuffleFrom(currentState.heap, currentState.addr, 0, 1, <<0>>, << >>)
     ELSE ShuffleFrom(currentState.heap, currentState.addr, 0, moves, rnd, << >>)

shufflePuzzle(h, s, moves, rnd) ==
  LET m == MapSpread(h, h[s].grid)
      currentState == Alloc(m.heap, [h[s] EXCEPT !.grid = m.addr])
  IN ShuffleFrom(currentState.heap, currentState.addr, 0, moves, rnd, << >>)

(* ------------------ getPiecePosition / getImagePosition --------------- *)

\* a % b of JavaScript for b > 0: the result has the sign of a
JsRem(a, b) == IF a >= 0 THEN a % b ELSE -((-a) % b)

\* the result with rows and columns exchanged
getPiecePositionTransposed(value, size) ==
  IF value = 0
  THEN [row |-> size - 1, col |-> size - 1]
  ELSE [row |-> JsRem(value - 1, size), col |-> (value - 1) \div size]

getPiecePosition(value, size) ==
  IF value = 0
  THEN [row |-> size - 1, col |-> size - 1]
  ELSE [row |-> (value - 1) \div size, col |-> JsRem(value - 1, size)]

\* `${n}%` : the decimal digits of the number n followed by a percent sign
Percent(n) == [number |-> n, unit |-> "%"]

getImagePosition(row, col) ==
  LET colPercent == -col * 100
      rowPercent == -row * 100
  IN [backgroundPositionX |-> Percent(colPercent),
      backgroundPositionY |-> Percent(rowPercent)]

(* ----------------------------- getGridSize ---------------------------- *)

\* a string is the sequence of its characters
Difficulties == { <<"3", "x", "3">>, <<"4", "x", "4">>,
                  <<"5", "x", "5">>, <<"6", "x", "6">> }

\* str.split(sep)[0] : the characters before the first sep (all, if none)
RECURSIVE SplitHead(_, _)
SplitHead(str, sep) ==
  IF str = << >> \/ Head(str) = sep
  THEN << >>
  ELSE <<Head(str)>> \o SplitHead(Tail(str), sep)

Digits == {"0", "1", "2", "3", "4", "5", "6", "7", "8", "9"}

DigitValue(ch) ==
  CASE ch = "0" -> 0 [] ch = "1" -> 1 [] ch = "2" -> 2 [] ch = "3" -> 3
    [] ch = "4" -> 4 [] ch = "5" -> 5 [] ch = "6" -> 6 [] ch = "7" -> 7
    [] ch = "8" -> 8 [] ch = "9" -> 9

\* what parseInt gives for a string that does not begin with a digit
NaN == -3

\* the value of the leading decimal digits of str, acc being the value of
\* the digits already read
RECURSIVE ParseDigits(_, _)
ParseDigits(str, acc) ==
  IF str = << >> \/ Head(str) \notin Digits
  THEN acc
  ELSE ParseDigits(Tail(str), acc * 10 + DigitValue(Head(str)))

\* parseInt(str) for a string without sign or leading blanks
ParseInt(str) ==
  IF str = << >> \/ Head(str) \notin Digits THEN NaN ELSE ParseDigits(str, 0)

\* the number of characters of the string, whatever they are
getGridSizeLength(difficulty) == Len(difficulty)

\* parseInt(difficulty.split('x')[0])
getGridSize(difficulty) == ParseInt(SplitHead(difficulty, "x"))

(* ---------------------------- state machine --------------------------- *)

VARIABLES
  heap,         \* the live JavaScript objects, by address
  puzzleState,  \* address of the PuzzleState the caller currently holds
  op,           \* the function or handler called last
  args,         \* its arguments (the PuzzleState argument is `input`)
  ret,          \* what it returned
  input,        \* address of the PuzzleState it was called on
  inputVal,     \* that PuzzleState by value, as it was when the call began
  walk,         \* shufflePuzzle: the cells the blank was swapped with, in order
  nOps,         \* engine calls made so far
  screen,          \* App: the screen shown
  settings,        \* App: the PuzzleSettings of the game, or null
  gameResult,      \* App: what handleGameComplete was given, or null
  slidesTaken,     \* GameScreen state
  timeElapsed,     \* GameScreen state: the seconds displayed
  isGameOver,      \* GameScreen state
  timeElapsedRef,  \* GameScreen: timeElapsedRef.current
  onCompleteCalls, \* the onComplete calls of the current round, in order
  pendingTick      \* GameScreen: the state updates the timer callback has
                   \* queued and React has not rendered yet, or null

hostVars == <<screen, settings, gameResult, slidesTaken, timeElapsed, isGameOver,
              timeElapsedRef, onCompleteCalls, pendingTick>>

vars == <<heap, puzzleState, op, args, ret, input, inputVal, walk, nOps,
          screen, settings, gameResult, slidesTaken, timeElapsed, isGameOver,
          timeElapsedRef, onCompleteCalls, pendingTick>>

Sizes == 2 .. MaxSize

\* the cells of the grid of the state held
GridCells == (0 .. heap[puzzleState].size - 1) \X (0 .. heap[puzzleState].size - 1)

\* the cells of the grid and the ring of positions one step outside it
AnyCells == (-1 .. heap[puzzleState].size) \X (-1 .. heap[puzzleState].size)

Draws == 0 .. RandDenom - 1

\* no game screen is mounted: App shows the start screen
NoGame ==
  /\ screen = "start"
  /\ settings = Null
  /\ gameResult = Null
  /\ slidesTaken = 0
  /\ timeElapsed = 0
  /\ isGameOver = FALSE
  /\ timeElapsedRef = 0
  /\ onCompleteCalls = << >>
  /\ pendingTick = Null

Init ==
  /\ \E n \in Sizes :
       LET r == createSolvedPuzzle(<< >>, n)
       IN /\ heap = r.heap
          /\ puzzleState = r.ret.addr
          /\ op = "createSolvedPuzzle"
          /\ args = <<n>>
          /\ ret = r.ret
          /\ input = 0
          /\ inputVal = NoCall
          /\ walk = << >>
          /\ nOps = 0
  /\ NoGame

\* a new game: the caller drops the state it held and builds a solved one;
\* when the call throws it is left with the state it held
CreateSolvedOn(sizes) ==
  /\ nOps < MaxOps
  /\ \E n \in sizes :
       \E r \in {createSolvedPuzzle(<< >>, n)} :
          /\ heap' = IF r.ret.kind = "state" THEN r.heap ELSE Collect(heap, puzzleState)
          /\ puzzleState' = IF r.ret.kind = "state" THEN r.ret.addr ELSE puzzleState
          /\ op' = "createSolvedPuzzle"
          /\ args' = <<n>>
          /\ ret' = r.ret
          /\ input' = 0
          /\ inputVal' = NoCall
          /\ walk' = << >>
          /\ nOps' = nOps + 1
  /\ UNCHANGED hostVars

CreateSolvedCall == CreateSolvedOn(Sizes)

CreateSolvedAnySizeCall == CreateSolvedOn(0 .. MaxSize)

\* movePiece(puzzleState, row, col); the caller keeps a non-null result
MovePieceOn(cells) ==
  /\ nOps < MaxOps
  /\ \E h0 \in {Collect(heap, puzzleState)} :
     \E v0 \in {ValueOf(h0, puzzleState)} :
        \E cell \in cells :
          \E r \in {movePiece(h0, puzzleState, cell[1], cell[2])} :
             /\ heap' = r.heap
             /\ puzzleState' = IF r.ret.kind = "state" THEN r.ret.addr ELSE puzzleState
             /\ op' = "movePiece"
             /\ args' = cell
             /\ ret' = r.ret
             /\ input' = puzzleState
             /\ inputVal' = v0
             /\ walk' = << >>
             /\ nOps' = nOps + 1
  /\ UNCHANGED hostVars

MovePieceCall == MovePieceOn(GridCells)

MovePieceAnyCall == MovePieceOn(AnyCells)

\* shufflePuzzle(puzzleState, moves); the caller keeps the result
ShuffleOn(steps) ==
  /\ nOps < MaxOps
  /\ \E h0 \in {Collect(heap, puzzleState)} :
     \E v0 \in {ValueOf(h0, puzzleState)} :
        \E moves \in steps :
          \E rnd \in [1 .. moves -> Draws] :
            \E r \in {shufflePuzzle(h0, puzzleState, moves, rnd)} :
               /\ heap' = r.heap
               /\ puzzleState' = IF r.ret.kind = "state" THEN r.ret.addr ELSE puzzleState
               /\ op' = "shufflePuzzle"
               /\ args' = <<moves>>
               /\ ret' = r.ret
               /\ input' = puzzleState
               /\ inputVal' = v0
               /\ walk' = r.walk
               /\ nOps' = nOps + 1
  /\ UNCHANGED hostVars

ShuffleCall == ShuffleOn(0 .. MaxSteps)

ShuffleAnyStepsCall == ShuffleOn(-1 .. MaxSteps)

\* isSolved(puzzleState)
IsSolvedCall ==
  LET h0 == Collect(heap, puzzleState)
  IN /\ heap' = h0
     /\ op' = "isSolved"
     /\ args' = << >>
     /\ ret' = isSolved(h0, puzzleState)
     /\ input' = puzzleState
     /\ inputVal' = ValueOf(h0, puzzleState)
     /\ walk' = << >>
     /\ UNCHANGED <<puzzleState, nOps>>
     /\ UNCHANGED hostVars

\* getPiecePosition(value, size) for a value of the grid held
GetPiecePositionCall ==
  \E h0 \in {Collect(heap, puzzleState)} :
    \E cell \in GridCells :
      LET value == Cell(h0, puzzleState, cell[1], cell[2])
          size == h0[puzzleState].size
          pos == getPiecePosition(value, size)
      IN /\ heap' = h0
         /\ op' = "getPiecePosition"
         /\ args' = <<value, size>>
         /\ ret' = [kind |-> "position", row |-> pos.row, col |-> pos.col]
         /\ input' = puzzleState
         /\ inputVal' = ValueOf(h0, puzzleState)
         /\ walk' = << >>
         /\ UNCHANGED <<puzzleState, nOps>>
         /\ UNCHANGED hostVars

\* getImagePosition(row, col) for a goal cell of the grid held
GetImagePositionCall ==
  \E h0 \in {Collect(heap, puzzleState)} :
    \E cell \in GridCells :
      LET img == getImagePosition(cell[1], cell[2])
      IN /\ heap' = h0
         /\ op' = "getImagePosition"
         /\ args' = cell
         /\ ret' = [kind |-> "image",
                    backgroundPositionX |-> img.backgroundPositionX,
                    backgroundPositionY |-> img.backgroundPositionY]
         /\ input' = puzzleState
         /\ inputVal' = ValueOf(h0, puzzleState)
         /\ walk' = << >>
         /\ UNCHANGED <<puzzleState, nOps>>
         /\ UNCHANGED hostVars

\* the engine driven with cells of the grid only
Next == CreateSolvedCall \/ MovePieceCall \/ ShuffleCall \/ IsSolvedCall

Spec == Init /\ [][Next]_vars

\* the engine driven with any cell up to one step outside the grid
NextAny == CreateSolvedCall \/ MovePieceAnyCall \/ ShuffleCall \/ IsSolvedCall

SpecAny == Init /\ [][NextAny]_vars

\* the engine driven with degenerate arguments too: sizes 0 and 1, a
\* negative number of shuffle moves
NextEdge ==
  CreateSolvedAnySizeCall \/ MovePieceCall \/ ShuffleAnyStepsCall \/ IsSolvedCall

SpecEdge == Init /\ [][NextEdge]_vars

\* the coordinate mapper applied to the puzzles reached by moves
NextMapper ==
  CreateSolvedCall \/ MovePieceCall \/ GetPiecePositionCall \/ GetImagePositionCall

SpecMapper == Init /\ [][NextMapper]_vars

(* --------------------------- App and GameScreen ----------------------- *)

\* null where a number is expected (settings.timeLimit, settings.slideLimit)
NullValue == -2

\* x as a condition, for x a number or null
Truthy(x) == x # NullValue /\ x # 0

\* the second argument of shufflePuzzle(solved, 1000), within the bound
ShuffleMoves == 2 * HalfWalk

\* settings.timeLimit: none, or a number of seconds that a tick can reach
\* and can exceed
TimeLimits == {NullValue, MaxElapsed - 1}

\* the states the for loop of shufflePuzzle can be in after `moves`
\* iterations, S being those it can be in after i of them: every value of
\* Math.random() is followed
RECURSIVE ShuffleReach(_, _, _)
ShuffleReach(S, i, moves) ==
  IF i < moves
  THEN ShuffleReach(
         UNION { IF s.ret.kind # "state"
                 THEN {s}
                 ELSE { ShuffleFrom(s.heap, s.ret.addr, i, i + 1, (i + 1) :> draw, << >>) :
                          draw \in Draws } : s \in S },
         i + 1, moves)
  ELSE S

\* const solved = createSolvedPuzzle(getGridSize(settings.difficulty));
\* shufflePuzzle(solved, 1000) : the puzzles a round of the given difficulty
\* can begin with, each in a heap of its own
NewPuzzles(difficulty) ==
  LET solved == createSolvedPuzzle(<< >>, getGridSize(difficulty))
  IN IF solved.ret.kind # "state"
     THEN {[heap |-> << >>, ret |-> solved.ret]}
     ELSE { IF r.ret.kind # "state"
            THEN [heap |-> << >>, ret |-> r.ret]
            ELSE [heap |-> Collect(r.heap, r.ret.addr), ret |-> r.ret] :
              r \in ShuffleReach({shufflePuzzle(solved.heap, solved.ret.addr, 0, << >>)},
                                 0, ShuffleMoves) }

\* the condition with the negation of isGameOver lost
SolvedEffectFiresWhenOver(h, ps, over) ==
  isSolved(h, ps) = Bool(TRUE) /\ over

\* isSolved(puzzleState) && !isGameOver
SolvedEffectFires(h, ps, over) ==
  isSolved(h, ps) = Bool(TRUE) /\ ~over

\* the test with `>` for `>=`: the game ends one move after the limit
SlideLimitEffectFiresLate(slideLimit, slides, over) ==
  Truthy(slideLimit) /\ slides > slideLimit /\ ~over

\* settings.slideLimit && slidesTaken >= settings.slideLimit && !isGameOver
SlideLimitEffectFires(slideLimit, slides, over) ==
  Truthy(slideLimit) /\ slides >= slideLimit /\ ~over

\* the solved effect calling onComplete once more than it should
AfterRenderCompletesTwice(h, ps, slides, over, elapsedRef, slideLimit) ==
  LET solvedFires == SolvedEffectFires(h, ps, over)
      limitFires == SlideLimitEffectFires(slideLimit, slides, over)
      call == [timeTaken |-> elapsedRef, slidesTaken |-> slides]
  IN [isGameOver |-> over \/ solvedFires \/ limitFires,
      calls |-> IF solvedFires THEN <<call, call>> ELSE << >>]

\* the slide-limit effect taking the game over before the solved effect looks
\* at it
AfterRenderLimitFirst(h, ps, slides, over, elapsedRef, slideLimit) ==
  LET limitFires == SlideLimitEffectFires(slideLimit, slides, over)
      solvedFires == SolvedEffectFires(h, ps, over \/ limitFires)
  IN [isGameOver |-> over \/ solvedFires \/ limitFires,
      calls |-> IF solvedFires
                THEN << [timeTaken |-> elapsedRef, slidesTaken |-> slides] >>
                ELSE << >>]

\* the effects that follow a render of GameScreen with a new puzzleState,
\* slidesTaken or isGameOver: what isGameOver becomes and the onComplete
\* calls made
AfterRender(h, ps, slides, over, elapsedRef, slideLimit) ==
  LET solvedFires == SolvedEffectFires(h, ps, over)
      limitFires == SlideLimitEffectFires(slideLimit, slides, over)
  IN [isGameOver |-> over \/ solvedFires \/ limitFires,
      calls |-> IF solvedFires
                THEN << [timeTaken |-> elapsedRef, slidesTaken |-> slides] >>
                ELSE << >>]

\* App before the first click: the start screen, no GameScreen mounted
InitGame ==
  /\ heap = << >>
  /\ puzzleState = 0
  /\ op = "App"
  /\ args = << >>
  /\ ret = NoCall
  /\ input = 0
  /\ inputVal = NoCall
  /\ walk = << >>
  /\ nOps = 0
  /\ NoGame

\* a round begins in a GameScreen with the puzzle g: its state is set, the
\* timer effect zeroes timeElapsedRef, the other effects run; an onComplete
\* call is App's handleGameComplete, which shows the result screen
BeginRound(g, st) ==
  \E fx \in {AfterRender(g.heap, g.ret.addr, 0, FALSE, 0, st.slideLimit)} :
     /\ heap' = g.heap
     /\ puzzleState' = g.ret.addr
     /\ ret' = g.ret
     /\ input' = 0
     /\ inputVal' = NoCall
     /\ walk' = << >>
     /\ settings' = st
     /\ slidesTaken' = 0
     /\ timeElapsed' = 0
     /\ timeElapsedRef' = 0
     /\ isGameOver' = fx.isGameOver
     /\ onCompleteCalls' = fx.calls
     /\ gameResult' = IF fx.calls = << >> THEN Null ELSE fx.calls[1]
     /\ screen' = IF fx.calls = << >> THEN "game" ELSE "result"
     /\ pendingTick' = Null
     /\ UNCHANGED nOps

\* App.handleStart(settings) with a slideLimit of the given set: GameScreen
\* is mounted
HandleStartOn(slideLimits) ==
  /\ screen = "start"
  /\ \E difficulty \in Difficulties :
     \E timeLimit \in TimeLimits :
     \E slideLimit \in slideLimits :
     \E g \in NewPuzzles(difficulty) :
        /\ g.ret.kind = "state"
        /\ op' = "handleStart"
        /\ args' = <<difficulty>>
        /\ BeginRound(g, [difficulty |-> difficulty, timeLimit |-> timeLimit,
                          slideLimit |-> slideLimit])

\* StartScreen.handleStart -> App.handleStart: slideLimit is always null
HandleStart == HandleStartOn({NullValue})

\* the guard of handlePieceClick and its call of movePiece: what the click on
\* cell gives, `over` being the isGameOver the handler was rendered with
ClickResult(h0, ps, over, cell) ==
  IF over \/ Cell(h0, ps, cell[1], cell[2]) = 0
  THEN [heap |-> h0, ret |-> NoCall]
  ELSE movePiece(h0, ps, cell[1], cell[2])

\* GameScreen.handlePieceClick(row, col), the render and the effects after it;
\* of a click that changes nothing only the outcome is recorded: no call of
\* movePiece, or null
HandlePieceClick ==
  /\ screen = "game"
  /\ pendingTick = Null
  /\ slidesTaken < MaxSlides
  /\ \E h0 \in {Collect(heap, puzzleState)} :
     \E v0 \in {ValueOf(h0, puzzleState)} :
     \E cell \in GridCells :
     \E r \in {ClickResult(h0, puzzleState, isGameOver, cell)} :
        /\ op' = "handlePieceClick"
        /\ args' = IF r.ret.kind = "state" THEN cell ELSE << >>
        /\ ret' = r.ret
        /\ input' = puzzleState
        /\ inputVal' = v0
        /\ walk' = << >>
        /\ heap' = r.heap
        /\ IF r.ret.kind = "state"
           THEN \E fx \in {AfterRender(r.heap, r.ret.addr, slidesTaken + 1, isGameOver,
                                       timeElapsedRef, settings.slideLimit)} :
                   /\ puzzleState' = r.ret.addr
                   /\ slidesTaken' = slidesTaken + 1
                   /\ isGameOver' = fx.isGameOver
                   /\ onCompleteCalls' = onCompleteCalls \o fx.calls
                   /\ gameResult' = IF fx.calls = << >> THEN gameResult ELSE fx.calls[1]
                   /\ screen' = IF fx.calls = << >> THEN screen ELSE "result"
                   /\ UNCHANGED <<nOps, settings, timeElapsed, timeElapsedRef,
                                  pendingTick>>
           ELSE UNCHANGED <<puzzleState, nOps, hostVars>>

\* the test with `>` for `>=`: the game goes on through the second at which
\* the limit is reached
TickOutcomeStrict(timeLimit, elapsed) ==
  IF Truthy(timeLimit) /\ elapsed > timeLimit
  THEN [isGameOver |-> TRUE, timeElapsed |-> timeLimit]
  ELSE [isGameOver |-> FALSE, timeElapsed |-> elapsed]

\* the state updates of the setInterval callback: setIsGameOver(true) and
\* setTimeElapsed(settings.timeLimit), or setTimeElapsed(elapsed)
TickOutcome(timeLimit, elapsed) ==
  IF Truthy(timeLimit) /\ elapsed >= timeLimit
  THEN [isGameOver |-> TRUE, timeElapsed |-> timeLimit]
  ELSE [isGameOver |-> FALSE, timeElapsed |-> elapsed]

\* the setInterval callback of the timer effect, which runs while the game
\* is not over, and the render after it
Tick ==
  /\ screen = "game"
  /\ ~isGameOver
  /\ pendingTick = Null
  /\ \E elapsed \in timeElapsedRef + 1 .. MaxElapsed :
       /\ op' = "tick"
       /\ args' = << >>
       /\ ret' = NoCall
       /\ input' = 0
       /\ inputVal' = NoCall
       /\ walk' = << >>
       /\ timeElapsedRef' = elapsed
       /\ \E out \in {TickOutcome(settings.timeLimit, elapsed)} :
            /\ isGameOver' = (isGameOver \/ out.isGameOver)
            /\ timeElapsed' = out.timeElapsed
       /\ UNCHANGED <<heap, puzzleState, nOps, screen, settings, gameResult,
                      slidesTaken, onCompleteCalls, pendingTick>>

\* GameScreen.handlePlayAgain, the button of the Game Over overlay
HandlePlayAgain ==
  /\ screen = "game"
  /\ isGameOver
  /\ isSolved(heap, puzzleState) # Bool(TRUE)
  /\ \E g \in NewPuzzles(settings.difficulty) :
        /\ g.ret.kind = "state"
        /\ op' = "handlePlayAgain"
        /\ args' = << >>
        /\ BeginRound(g, settings)

\* App.handlePlayAgain, the button of the result screen: GameScreen is
\* mounted again with the settings kept
AppHandlePlayAgain ==
  /\ screen = "result"
  /\ settings # Null
  /\ \E g \in NewPuzzles(settings.difficulty) :
        /\ g.ret.kind = "state"
        /\ op' = "App.handlePlayAgain"
        /\ args' = << >>
        /\ BeginRound(g, settings)

\* handleQuit without setSettings(null)
HandleQuitKeepsSettings ==
  /\ heap' = << >>
  /\ puzzleState' = 0
  /\ op' = "handleQuit"
  /\ args' = << >>
  /\ ret' = NoCall
  /\ input' = 0
  /\ inputVal' = NoCall
  /\ walk' = << >>
  /\ screen' = "start"
  /\ gameResult' = Null
  /\ slidesTaken' = 0
  /\ timeElapsed' = 0
  /\ isGameOver' = FALSE
  /\ timeElapsedRef' = 0
  /\ onCompleteCalls' = << >>
  /\ pendingTick' = Null
  /\ UNCHANGED <<nOps, settings>>

\* App.handleQuit (Quit Game, Return to Start, the header): whatever screen
\* was shown is unmounted
HandleQuit ==
  /\ heap' = << >>
  /\ puzzleState' = 0
  /\ op' = "handleQuit"
  /\ args' = << >>
  /\ ret' = NoCall
  /\ input' = 0
  /\ inputVal' = NoCall
  /\ walk' = << >>
  /\ UNCHANGED nOps
  /\ screen' = "start"
  /\ settings' = Null
  /\ gameResult' = Null
  /\ slidesTaken' = 0
  /\ timeElapsed' = 0
  /\ isGameOver' = FALSE
  /\ timeElapsedRef' = 0
  /\ onCompleteCalls' = << >>
  /\ pendingTick' = Null

NextGame ==
  \/ HandleStart
  \/ HandlePieceClick
  \/ Tick
  \/ HandlePlayAgain
  \/ AppHandlePlayAgain
  \/ HandleQuit

SpecGame == InitGame /\ [][NextGame]_vars

----------------------------------------------------------------------------
(* GameScreen with a slide limit                                           *)
(*                                                                         *)
(* StartScreen.handleStart always passes slideLimit: null. PuzzleSettings   *)
(* allows a number, and the GameScreen with the slide-limit effect (which  *)
(* has no Play Again button in its overlay) is modelled here with settings *)
(* whose slideLimit is set.                                                *)

\* the slide limits of the games explored: one that leaves room for a click
\* after the limit is reached, and one that the shortest solution reaches
SlideLimits == {MaxSlides - 1, MaxSlides}

HandleStartWithSlideLimit == HandleStartOn(SlideLimits)

NextLimits ==
  \/ HandleStartWithSlideLimit
  \/ HandlePieceClick
  \/ Tick
  \/ AppHandlePlayAgain
  \/ HandleQuit

SpecLimits == InitGame /\ [][NextLimits]_vars

----------------------------------------------------------------------------
(* The timer callback and the render after it as two steps                 *)
(*                                                                         *)
(* The setInterval callback only queues its state updates; React renders   *)
(* them later, and a click can be handled in between, by the handler of    *)
(* the last render. Whether the render that follows that click takes the   *)
(* queued updates of the callback with it depends on the React in use: a   *)
(* root that renders the click's updates alone leaves them queued, a root  *)
(* that renders all pending updates in one pass applies them together.     *)
(* Both are outcomes of this code, and both are explored here.             *)

\* the setInterval callback of the timer effect: timeElapsedRef.current is
\* assigned at once; setIsGameOver and setTimeElapsed are queued
TimerCallback ==
  /\ screen = "game"
  /\ ~isGameOver
  /\ pendingTick = Null
  /\ \E elapsed \in timeElapsedRef + 1 .. MaxElapsed :
       /\ op' = "timerCallback"
       /\ args' = << >>
       /\ ret' = NoCall
       /\ input' = 0
       /\ inputVal' = NoCall
       /\ walk' = << >>
       /\ timeElapsedRef' = elapsed
       /\ pendingTick' = TickOutcome(settings.timeLimit, elapsed)
       /\ UNCHANGED <<heap, puzzleState, nOps, screen, settings, gameResult,
                      slidesTaken, timeElapsed, isGameOver, onCompleteCalls>>

\* the render of the updates the callback queued; with isGameOver true the
\* solved effect does nothing
RenderPending ==
  /\ screen = "game"
  /\ pendingTick # Null
  /\ \E fx \in {AfterRender(heap, puzzleState, slidesTaken,
                            isGameOver \/ pendingTick.isGameOver,
                            timeElapsedRef, settings.slideLimit)} :
       /\ op' = "render"
       /\ args' = << >>
       /\ ret' = NoCall
       /\ input' = 0
       /\ inputVal' = NoCall
       /\ walk' = << >>
       /\ timeElapsed' = pendingTick.timeElapsed
       /\ isGameOver' = fx.isGameOver
       /\ onCompleteCalls' = onCompleteCalls \o fx.calls
       /\ gameResult' = IF fx.calls = << >> THEN gameResult ELSE fx.calls[1]
       /\ screen' = IF fx.calls = << >> THEN screen ELSE "result"
       /\ pendingTick' = Null
       /\ UNCHANGED <<heap, puzzleState, nOps, settings, slidesTaken,
                      timeElapsedRef>>

\* GameScreen.handlePieceClick(row, col) between the callback and its
\* render: the handler is the one of the last render, and the render of its
\* updates takes the queued ones with it (batched) or not
ClickBeforeRender ==
  /\ screen = "game"
  /\ pendingTick # Null
  /\ slidesTaken < MaxSlides
  /\ \E h0 \in {Collect(heap, puzzleState)} :
     \E v0 \in {ValueOf(h0, puzzleState)} :
     \E cell \in GridCells :
     \E r \in {ClickResult(h0, puzzleState, isGameOver, cell)} :
        /\ op' = "handlePieceClick"
        /\ args' = IF r.ret.kind = "state" THEN cell ELSE << >>
        /\ ret' = r.ret
        /\ input' = puzzleState
        /\ inputVal' = v0
        /\ walk' = << >>
        /\ heap' = r.heap
        /\ IF r.ret.kind = "state"
           THEN \E batched \in BOOLEAN :
                \E fx \in {AfterRender(r.heap, r.ret.addr, slidesTaken + 1,
                                       isGameOver \/ (batched /\ pendingTick.isGameOver),
                                       timeElapsedRef, settings.slideLimit)} :
                   /\ puzzleState' = r.ret.addr
                   /\ slidesTaken' = slidesTaken + 1
                   /\ isGameOver' = fx.isGameOver
                   /\ timeElapsed' = IF batched THEN pendingTick.timeElapsed
                                     ELSE timeElapsed
                   /\ onCompleteCalls' = onCompleteCalls \o fx.calls
                   /\ gameResult' = IF fx.calls = << >> THEN gameResult ELSE fx.calls[1]
                   /\ screen' = IF fx.calls = << >> THEN screen ELSE "result"
                   /\ pendingTick' = IF batched \/ fx.calls # << >> THEN Null
                                     ELSE pendingTick
                   /\ UNCHANGED <<nOps, settings, timeElapsedRef>>
           ELSE UNCHANGED <<puzzleState, nOps, hostVars>>

NextRace ==
  \/ HandleStart
  \/ HandlePieceClick
  \/ TimerCallback
  \/ RenderPending
  \/ ClickBeforeRender
  \/ HandlePlayAgain
  \/ AppHandlePlayAgain
  \/ HandleQuit

SpecRace == InitGame /\ [][NextRace]_vars

(* ------------------------- invariants I1 - I4 ------------------------- *)

\* I1-I4 for a PuzzleState value: a square size x size grid holding each of
\* 0 .. size*size-1 exactly once, the blank where emptyRow/emptyCol say
Consistent(v) ==
  LET idx == 0 .. v.size - 1
  IN /\ DOMAIN v.grid = idx
     /\ \A r \in idx : DOMAIN v.grid[r] = idx
     /\ \A k \in 0 .. v.size * v.size - 1 :
          Cardinality({rc \in idx \X idx : v.grid[rc[1]][rc[2]] = k}) = 1
     /\ v.emptyRow \in idx
     /\ v.emptyCol \in idx
     /\ v.grid[v.emptyRow][v.emptyCol] = 0

\* the canonical solved layout of the spec's data model
Canonical(n, r, c) == IF r = n - 1 /\ c = n - 1 THEN 0 ELSE r * n + c + 1

\* the PuzzleState the caller holds, by value
Held == ValueOf(heap, puzzleState)

\* C1: every PuzzleState reached from createSolvedPuzzle(N), N >= 2, by
\* shufflePuzzle and by movePiece on cells of the grid satisfies I1-I4, and
\* its size is the N it was created with.
C1_InvariantsPreserved ==
  /\ Consistent(Held)
  /\ Held.size \in Sizes
  /\ op = "createSolvedPuzzle" => Held.size = args[1]
  /\ op # "createSolvedPuzzle" => Held.size = inputVal.size

\* a state produced by a legal move after an earlier call, no longer solved
C1_Witness ==
  /\ op = "movePiece"
  /\ ret.kind = "state"
  /\ nOps >= 2
  /\ Held.size = 3
  /\ Held.emptyRow < 2
  /\ Held.emptyCol < 2

(* ------------------------- replaying move lists ----------------------- *)

\* movePiece applied to the cells of a list in turn, each call on the state
\* the previous one returned; stops at the first call returning no state
RECURSIVE FoldMoves(_, _, _)
FoldMoves(h, s, cells) ==
  IF cells = << >>
  THEN [heap |-> h, ret |-> StateRef(s)]
  ELSE LET r == movePiece(h, s, Head(cells)[1], Head(cells)[2])
       IN IF r.ret.kind # "state"
          THEN r
          ELSE FoldMoves(r.heap, r.ret.addr, Tail(cells))

\* where the blank was before each step of a walk that began at state value v
BlankPath(v, w) == << <<v.emptyRow, v.emptyCol>> >> \o w

\* the moves undoing the walk w, last step first
UndoCells(v, w) == [i \in 1 .. Len(w) |-> BlankPath(v, w)[Len(w) - i + 1]]

\* createSolvedPuzzle(n) by value
SolvedValue(n) ==
  LET r == createSolvedPuzzle(<< >>, n)
  IN ValueOf(r.heap, r.ret.addr)

\* C2: the state shufflePuzzle returns for a solved puzzle is solvable: the
\* walk is at most `moves` legal movePiece moves leading from the solved state
\* to it, and undoing the walk's moves in reverse order gives a solved state.
C2_ShuffleSolvable ==
  (op = "shufflePuzzle" /\ inputVal = SolvedValue(inputVal.size)) =>
    /\ ret.kind = "state"
    /\ Len(walk) <= args[1]
    /\ LET fwd == FoldMoves(heap, input, walk)
       IN /\ fwd.ret.kind = "state"
          /\ ValueOf(fwd.heap, fwd.ret.addr) = Held
    /\ LET back == FoldMoves(heap, puzzleState, UndoCells(inputVal, walk))
       IN /\ back.ret.kind = "state"
          /\ isSolved(back.heap, back.ret.addr) = Bool(TRUE)

\* a two-step shuffle of the solved 3 x 3 puzzle that left it unsolved
C2_Witness ==
  /\ op = "shufflePuzzle"
  /\ inputVal = SolvedValue(3)
  /\ Len(walk) = 2
  /\ isSolved(heap, puzzleState) = Bool(FALSE)

\* the cells a claim about one move looks at: the grid and two steps around it
Around(v) == (-2 .. v.size + 1) \X (-2 .. v.size + 1)

\* C3: a non-null result of movePiece(state, row, col) has the tile formerly
\* at (row, col) in the former blank cell, 0 at (row, col), emptyRow/emptyCol
\* equal to (row, col), the same size, and every other cell as in the input.
C3_MoveSwapsTileAndBlank ==
  (op = "movePiece" /\ ret.kind = "state") =>
    LET row == args[1]
        col == args[2]
    IN /\ CellV(Held, inputVal.emptyRow, inputVal.emptyCol) = CellV(inputVal, row, col)
       /\ CellV(Held, row, col) = 0
       /\ Held.emptyRow = row
       /\ Held.emptyCol = col
       /\ Held.size = inputVal.size
       /\ \A rc \in Around(inputVal) :
            (rc # <<row, col>> /\ rc # <<inputVal.emptyRow, inputVal.emptyCol>>)
              => CellV(Held, rc[1], rc[2]) = CellV(inputVal, rc[1], rc[2])

\* scenario B of the spec: movePiece(createSolvedPuzzle(3), 2, 1)
C3_Witness ==
  /\ op = "movePiece"
  /\ ret.kind = "state"
  /\ inputVal = SolvedValue(3)
  /\ args = <<2, 1>>
  /\ Held.grid = [r \in 0 .. 2 |-> [c \in 0 .. 2 |->
                    IF <<r, c>> = <<2, 1>> THEN 0
                    ELSE IF <<r, c>> = <<2, 2>> THEN 8 ELSE Canonical(3, r, c)]]

\* C4: movePiece returns non-null exactly when canMove is true, and an
\* illegal move is signalled by null, never by an exception or a changed state.
C4_NonNullIffCanMove ==
  op = "movePiece" =>
    /\ ret.kind \in {"state", "null"}
    /\ ret.kind = "state" <=> canMove(inputVal, args[1], args[2])
    /\ ret.kind = "null" => (puzzleState = input /\ Held = inputVal)

\* C5: canMove(state, row, col) is true exactly when
\* |row - emptyRow| + |col - emptyCol| = 1.
C5_CanMoveIsManhattanOne ==
  op = "movePiece" =>
    (canMove(inputVal, args[1], args[2])
       <=> Abs(args[1] - inputVal.emptyRow) + Abs(args[2] - inputVal.emptyCol) = 1)

\* movePiece on a diagonal neighbour of the blank inside the grid returned null
C5_Witness ==
  /\ op = "movePiece"
  /\ Abs(args[1] - inputVal.emptyRow) = 1
  /\ Abs(args[2] - inputVal.emptyCol) = 1
  /\ args \in (0 .. inputVal.size - 1) \X (0 .. inputVal.size - 1)
  /\ ~canMove(inputVal, args[1], args[2])
  /\ ret = Null

\* C6: for a state satisfying I1-I4 and any integer pair (row, col), also one
\* step outside the grid next to the blank, a non-null result of movePiece
\* satisfies I1-I4.
C6_MoveKeepsInvariantsAnywhere ==
  (op = "movePiece" /\ Consistent(inputVal) /\ ret.kind = "state") =>
    Consistent(Held)

\* C7: isSolved(state) is true exactly when every cell of state.grid equals
\* the canonical solved layout for state.size; the blank being home is not
\* enough.
C7_IsSolvedComparesEveryCell ==
  op = "isSolved" =>
    ret = Bool(\A r \in 0 .. inputVal.size - 1 : \A c \in 0 .. inputVal.size - 1 :
                 CellV(inputVal, r, c) = Canonical(inputVal.size, r, c))

\* isSolved said false of a state whose blank is in the last cell
C7_Witness ==
  /\ op = "isSolved"
  /\ ret = Bool(FALSE)
  /\ inputVal.emptyRow = inputVal.size - 1
  /\ inputVal.emptyCol = inputVal.size - 1

\* C8: createSolvedPuzzle(N), N >= 2, returns an N x N grid whose cell (r, c)
\* holds r*N + c + 1, except cell (N-1, N-1) which holds 0, with
\* emptyRow = emptyCol = N-1 and size = N.
C8_CreateSolvedIsCanonical ==
  op = "createSolvedPuzzle" =>
    LET n == args[1]
    IN /\ ret = StateRef(puzzleState)
       /\ Held = [grid |-> [r \in 0 .. n - 1 |-> [c \in 0 .. n - 1 |-> Canonical(n, r, c)]],
                  emptyRow |-> n - 1,
                  emptyCol |-> n - 1,
                  size |-> n]

\* scenario A of the spec, built by a call made during the run
C8_Witness ==
  /\ op = "createSolvedPuzzle"
  /\ nOps >= 1
  /\ args = <<3>>
  /\ Held.grid[2] = [c \in 0 .. 2 |-> IF c = 2 THEN 0 ELSE 7 + c]

\* C9: createSolvedPuzzle(N) is solved, and a legal move followed by moving
\* the same tile back restores grid, emptyRow and emptyCol, so a move from a
\* solved state undone at once ends in a solved state.
C9_UndoRestores ==
  [][ /\ op' = "createSolvedPuzzle" => isSolved(heap', puzzleState') = Bool(TRUE)
      /\ ( /\ op = "movePiece"
           /\ ret.kind = "state"
           /\ op' = "movePiece"
           /\ args' = <<inputVal.emptyRow, inputVal.emptyCol>> )
         => /\ ret'.kind = "state"
            /\ ValueOf(heap', puzzleState') = inputVal
            /\ isSolved(heap', puzzleState') = 
                 Bool(inputVal = SolvedValue(inputVal.size)) ]_vars

\* a tile of the solved puzzle was moved and moved back
C9_Witness ==
  /\ op = "movePiece"
  /\ ret.kind = "state"
  /\ nOps = 2
  /\ args = <<Held.size - 1, Held.size - 1>>
  /\ Held = SolvedValue(Held.size)
  /\ isSolved(heap, puzzleState) = Bool(TRUE)

\* C10: movePiece and shufflePuzzle do not change the state they are given,
\* and the grid they return shares no row (nor the grid array, nor the state
\* object) with it.
C10_InputUntouched ==
  op \in {"movePiece", "shufflePuzzle"} =>
    /\ ValueOf(heap, input) = inputVal
    /\ ret.kind = "state" =>
         /\ ret.addr # input
         /\ heap[ret.addr].grid # heap[input].grid
         /\ RowsOf(heap, ret.addr) \cap RowsOf(heap, input) = {}

\* shufflePuzzle swapped cells in place and returned a state that differs
\* from the one it was given
C10_Witness ==
  /\ op = "shufflePuzzle"
  /\ ret.kind = "state"
  /\ Len(walk) >= 1
  /\ Held # inputVal

(* -------------------------- degenerate shuffles ----------------------- *)

\* C11: shufflePuzzle(state, moves) with moves <= 0 returns a state whose
\* grid, emptyRow, emptyCol and size equal those of the state it was given;
\* so shufflePuzzle(createSolvedPuzzle(3), 0) equals createSolvedPuzzle(3).
C11_NoStepsNoChange ==
  (op = "shufflePuzzle" /\ args[1] <= 0) =>
    /\ ret.kind = "state"
    /\ Held.grid = inputVal.grid
    /\ Held.emptyRow = inputVal.emptyRow
    /\ Held.emptyCol = inputVal.emptyCol
    /\ Held.size = inputVal.size

\* shufflePuzzle(createSolvedPuzzle(3), 0) returned a copy equal to
\* createSolvedPuzzle(3)
C11_Witness ==
  /\ op = "shufflePuzzle"
  /\ args = <<0>>
  /\ inputVal = SolvedValue(3)
  /\ ret.kind = "state"
  /\ ret.addr # input
  /\ Held = SolvedValue(3)

\* C12: the random choices of a shuffle are supplied by its caller, so two
\* shufflePuzzle calls given the same state and the same number of moves
\* return identical states: whatever Math.random() yields, the call returns
\* the state this call returned.
C12_SameCallSameState ==
  op = "shufflePuzzle" =>
    \A rnd \in [1 .. args[1] -> Draws] :
      LET again == shufflePuzzle(heap, input, args[1], rnd)
      IN /\ again.ret.kind = "state"
         /\ ValueOf(again.heap, again.ret.addr) = Held

\* C13: createSolvedPuzzle(size) with size < 2 fails with an InvalidSize
\* error and returns no PuzzleState.
C13_SmallSizeIsInvalidSize ==
  (op = "createSolvedPuzzle" /\ args[1] < 2) => ret.kind = "InvalidSize"

(* --------------------------- coordinate mapper ------------------------ *)

\* C14: getPiecePosition(v, N) for v in 1 .. N*N-1 is the cell (row, col) of
\* the grid with row*N + col + 1 = v, for v = 0 it is (N-1, N-1); that is,
\* it is the cell of createSolvedPuzzle(N) holding v.
C14_PiecePositionInvertsLayout ==
  op = "getPiecePosition" =>
    LET v == args[1]
        n == args[2]
    IN /\ ret.row \in 0 .. n - 1
       /\ ret.col \in 0 .. n - 1
       /\ v # 0 => ret.row * n + ret.col + 1 = v
       /\ v = 0 => (ret.row = n - 1 /\ ret.col = n - 1)
       /\ \A rc \in (0 .. n - 1) \X (0 .. n - 1) :
            CellV(SolvedValue(n), rc[1], rc[2]) = v => <<ret.row, ret.col>> = rc

\* tile 6 of a 3 x 3 puzzle, read from a grid in which it is not at its
\* goal cell, has goal cell (1, 2)
C14_Witness ==
  /\ op = "getPiecePosition"
  /\ args = <<6, 3>>
  /\ CellV(inputVal, 1, 2) # 6
  /\ ret.row = 1
  /\ ret.col = 2

\* C15: for a puzzle of size >= 2 and a goal cell (row, col) of its grid,
\* getImagePosition returns the percentages col*100/(size-1) and
\* row*100/(size-1), so that column size-1 maps to 100%.
C15_OffsetScaledBySizeMinusOne ==
  op = "getImagePosition" =>
    /\ ret.backgroundPositionX.unit = "%"
    /\ ret.backgroundPositionY.unit = "%"
    /\ ret.backgroundPositionX.number * (inputVal.size - 1) = args[2] * 100
    /\ ret.backgroundPositionY.number * (inputVal.size - 1) = args[1] * 100

(* ------------------------- the steps of a shuffle --------------------- *)

\* C19: for size >= 2 the shuffle never exits early: before every step the
\* blank has at least two orthogonal neighbours inside the grid, the cell
\* selected is one of them, and exactly `moves` swaps are made.
C19_ShuffleNeverExitsEarly ==
  (op = "shufflePuzzle" /\ inputVal.size >= 2) =>
    LET n == inputVal.size
        cells == (0 .. n - 1) \X (0 .. n - 1)
        path == BlankPath(inputVal, walk)
        Neighbours(p) == {rc \in cells : Abs(rc[1] - p[1]) + Abs(rc[2] - p[2]) = 1}
    IN /\ ret.kind = "state"
       /\ Len(walk) = IF args[1] > 0 THEN args[1] ELSE 0
       /\ \A i \in 1 .. Len(walk) :
            /\ Cardinality(Neighbours(path[i])) >= 2
            /\ walk[i] \in Neighbours(path[i])

\* two swaps were made on a 2 x 2 puzzle, whose blank is always in a corner
C19_Witness ==
  /\ op = "shufflePuzzle"
  /\ inputVal.size = 2
  /\ args = <<2>>
  /\ Len(walk) = 2
  /\ walk[1] # walk[2]

\* C20: each shuffle step is one movePiece call: for a state satisfying
\* I1-I4 and any random choices, every cell chosen passes canMove, movePiece
\* folded over the chosen cells never returns null, and the state it ends in
\* equals the state shufflePuzzle returns after its in-place swaps.
C20_ShuffleStepIsMovePiece ==
  (op = "shufflePuzzle" /\ Consistent(inputVal)) =>
    LET path == BlankPath(inputVal, walk)
        fold == FoldMoves(heap, input, walk)
    IN /\ ret.kind = "state"
       /\ \A i \in 1 .. Len(walk) :
            canMove([emptyRow |-> path[i][1], emptyCol |-> path[i][2]],
                    walk[i][1], walk[i][2])
       /\ fold.ret.kind = "state"
       /\ ValueOf(fold.heap, fold.ret.addr) = Held

\* a two-step shuffle of a state that was not solved
C20_Witness ==
  /\ op = "shufflePuzzle"
  /\ inputVal # SolvedValue(inputVal.size)
  /\ Len(walk) = 2
  /\ Held # inputVal

(* ------------------------------ the host ------------------------------ *)

\* the solved effect has just run on the state an accepted move produced
Completed ==
  /\ isGameOver
  /\ onCompleteCalls # << >>
  /\ onCompleteCalls[Len(onCompleteCalls)] =
       [timeTaken |-> timeElapsedRef, slidesTaken |-> slidesTaken]
  /\ gameResult = [timeTaken |-> timeElapsedRef, slidesTaken |-> slidesTaken]
  /\ screen = "result"

SizeOf(difficulty) ==
  CASE difficulty = <<"3", "x", "3">> -> 3
    [] difficulty = <<"4", "x", "4">> -> 4
    [] difficulty = <<"5", "x", "5">> -> 5
    [] difficulty = <<"6", "x", "6">> -> 6

\* C17: getGridSize maps '3x3', '4x4', '5x5', '6x6' to 3, 4, 5, 6, so the
\* puzzle state a game holds always has the size of its difficulty, a
\* number in {3, 4, 5, 6}, from the shuffle at its start through every move
\* and every Play Again.
C17_GameSizeIsDifficulty ==
  /\ \A d \in Difficulties : getGridSize(d) = SizeOf(d)
  /\ settings # Null =>
       /\ Held.size = SizeOf(settings.difficulty)
       /\ Held.size \in {3, 4, 5, 6}
       /\ DOMAIN Held.grid = 0 .. Held.size - 1

\* a 6x6 game after two accepted moves
C17_Witness ==
  /\ screen = "game"
  /\ settings.difficulty = <<"6", "x", "6">>
  /\ slidesTaken = 2
  /\ Held.size = 6

\* C18: the game never completes without a player move: the shuffled state
\* a round begins with is not solved, so onComplete is only called with
\* slidesTaken >= 1.
C18_NoCompletionWithoutMove ==
  /\ (op \in {"handleStart", "handlePlayAgain", "App.handlePlayAgain"})
       => Held # SolvedValue(Held.size)
  /\ \A i \in 1 .. Len(onCompleteCalls) : onCompleteCalls[i].slidesTaken >= 1

\* C29: blank-position parity: after shufflePuzzle(createSolvedPuzzle(N), k)
\* with N >= 2 and k >= 0, emptyRow + emptyCol has the parity of k; so for
\* odd k the result is not solved and its blank is not at (N-1, N-1).
C29_BlankParityIsSteps ==
  (op = "shufflePuzzle" /\ args[1] >= 0 /\ inputVal = SolvedValue(inputVal.size))
    => /\ ret.kind = "state"
       /\ (Held.emptyRow + Held.emptyCol) % 2 = args[1] % 2
       /\ args[1] % 2 = 1 =>
            /\ isSolved(heap, puzzleState) = Bool(FALSE)
            /\ Held # SolvedValue(Held.size)
            /\ <<Held.emptyRow, Held.emptyCol>> # <<Held.size - 1, Held.size - 1>>

\* a two-step shuffle of the solved 3x3 board that left the blank on the
\* diagonal cell (1, 1)
C29_Witness ==
  /\ op = "shufflePuzzle"
  /\ args = <<2>>
  /\ inputVal = SolvedValue(3)
  /\ ret.kind = "state"
  /\ Held.emptyRow = 1
  /\ Held.emptyCol = 1

\* C28: in App, whatever sequence of handleStart, handleGameComplete,
\* handleQuit and handlePlayAgain the screens and the header fire, the game
\* screen is shown with settings that are not null and the result screen with
\* settings and gameResult that are not null; handleQuit leads to the start
\* screen with settings and gameResult null, and handlePlayAgain leaves
\* settings as they were.
C28_ScreensHaveTheirData ==
  [][ /\ screen' = "game" => settings' # Null
      /\ screen' = "result" => (settings' # Null /\ gameResult' # Null)
      /\ op' = "handleQuit" =>
           (screen' = "start" /\ settings' = Null /\ gameResult' = Null)
      /\ op' = "App.handlePlayAgain" =>
           (settings # Null /\ settings' = settings) ]_vars

\* Play Again on the result screen of a 4x4 game brought the game screen
\* back with the same settings and no result
C28_Witness ==
  /\ op = "App.handlePlayAgain"
  /\ screen = "game"
  /\ settings # Null
  /\ settings.difficulty = <<"4", "x", "4">>
  /\ gameResult = Null

\* C21: slidesTaken counts exactly the accepted moves: the clicks that are
\* accepted are clicks on a cell next to the blank (so none on the blank cell
\* or on a cell that is not adjacent to it), a click that is not accepted
\* leaves puzzleState and slidesTaken as they were, and an accepted move
\* replaces puzzleState (by the board with the clicked tile and the blank
\* exchanged) and adds exactly 1 to slidesTaken.
C21_SlidesCountAcceptedMoves ==
  [][ op' = "handlePieceClick" =>
        IF ret'.kind = "state"
        THEN /\ Abs(args'[1] - Held.emptyRow) + Abs(args'[2] - Held.emptyCol) = 1
             /\ slidesTaken' = slidesTaken + 1
             /\ puzzleState' # puzzleState
             /\ Held' # Held
             /\ Held'.emptyRow = args'[1]
             /\ Held'.emptyCol = args'[2]
             /\ CellV(Held', Held.emptyRow, Held.emptyCol) = CellV(Held, args'[1], args'[2])
        ELSE /\ slidesTaken' = slidesTaken
             /\ puzzleState' = puzzleState
             /\ Held' = Held ]_vars

\* the second accepted move of a game that goes on
C21_Witness ==
  /\ op = "handlePieceClick"
  /\ ret.kind = "state"
  /\ slidesTaken = 2
  /\ inputVal # Held
  /\ screen = "game"
  /\ ~isGameOver

\* remainingTime of GameScreen: settings.timeLimit
\*   ? Math.max(0, settings.timeLimit - timeElapsed) : null
remainingTime(timeLimit, elapsedShown) ==
  IF Truthy(timeLimit) THEN Max({0, timeLimit - elapsedShown}) ELSE NullValue

\* C22: with a time limit set, a tick of the timer whose elapsed seconds
\* reach or exceed the limit ends the game and shows the limit as the
\* elapsed time; and in every state of a game the elapsed time shown is at
\* most the limit and remainingTime is not negative.
C22_TimeoutEndsGameAtLimit ==
  (settings # Null /\ Truthy(settings.timeLimit)) =>
    /\ (op = "tick" /\ timeElapsedRef >= settings.timeLimit)
         => (isGameOver /\ timeElapsed = settings.timeLimit)
    /\ timeElapsed <= settings.timeLimit
    /\ remainingTime(settings.timeLimit, timeElapsed) >= 0
    /\ remainingTime(settings.timeLimit, timeElapsed) = settings.timeLimit - timeElapsed

\* the timer ticked one second past the limit: the game is over and the
\* elapsed time shown is the limit
C22_Witness ==
  /\ op = "tick"
  /\ settings # Null
  /\ Truthy(settings.timeLimit)
  /\ timeElapsedRef = settings.timeLimit + 1
  /\ timeElapsed = settings.timeLimit
  /\ isGameOver
  /\ screen = "game"

\* C23: Play Again inside a finished game starts a fresh game: puzzleState
\* is a new shuffle of the solved puzzle of the same difficulty, slidesTaken
\* and timeElapsed are 0, isGameOver is false and the timer counts from 0
\* again.
C23_PlayAgainStartsFresh ==
  op = "handlePlayAgain" =>
    /\ screen = "game"
    /\ Held.size = SizeOf(settings.difficulty)
    /\ Consistent(Held)
    /\ slidesTaken = 0
    /\ timeElapsed = 0
    /\ timeElapsedRef = 0
    /\ ~isGameOver
    /\ onCompleteCalls = << >>

\* C25: onComplete is invoked at most once per game, that is per mount of the
\* game screen and per Play Again round, whatever ticks of the timer, clicks
\* and renders come after the solving move.
C25_CompletesAtMostOnce ==
  /\ Len(onCompleteCalls) <= 1
  /\ onCompleteCalls # << >> => (screen = "result" /\ gameResult = onCompleteCalls[1])
  /\ screen = "game" => onCompleteCalls = << >>

\* a round completed by its second move, after a tick of the timer: one call
C25_Witness ==
  /\ screen = "result"
  /\ Len(onCompleteCalls) = 1
  /\ onCompleteCalls[1].slidesTaken = 2
  /\ onCompleteCalls[1].timeTaken >= 1
  /\ op = "handlePieceClick"

\* remainingSlides of GameScreen: settings.slideLimit
\*   ? Math.max(0, settings.slideLimit - slidesTaken) : null
remainingSlides(slideLimit, slides) ==
  IF Truthy(slideLimit) THEN Max({0, slideLimit - slides}) ELSE NullValue

\* the Game Over overlay is rendered
OverlayShown ==
  screen = "game" /\ isGameOver /\ isSolved(heap, puzzleState) # Bool(TRUE)

C24_FinishedGameShowsOutcome ==
  isGameOver => \/ (onCompleteCalls # << >> /\ screen = "result")
                \/ OverlayShown

====
